---- MODULE Spec2Model ----
(***************************************************************************)
(* A model of scripts/crawl_deadlines.py: the deadline inference engine    *)
(* (extract_candidates, pick_deadline, extension_days_from_dates,          *)
(* infer_extension_by_family) and the batch run of main() over the two     *)
(* files it reads and rewrites (conferences.json, deadline_history.json).  *)
(*                                                                         *)
(* Calendar dates are triples <<year, month, day>>.  An ISO string         *)
(* "YYYY-MM-DD" compares as its triple does, lexicographically; a          *)
(* datetime.date compares by its proleptic Gregorian ordinal.              *)
(* An optional value is <<>> (None) or <<v>>.                              *)
(* Confidence is counted in hundredths (0.45 is 45).                       *)
(***************************************************************************)
EXTENDS Integers, Sequences, FiniteSets

VARIABLES
    \* ---- the pure pipeline extract_candidates -> pick_deadline
    stage,       \* "input" before the pipeline has run, "done" after
    lines,       \* the text lines handed to extract_candidates
    radius,      \* rule["context_radius"]
    target_year, \* conf.get("year")
    observed,    \* the line-level list `candidates` as it stands at line 162
    cands,       \* the list extract_candidates returns
    picked,      \* the triple pick_deadline returns, once it has run
    \* ---- the runs of main()
    outFile,     \* data/conferences.json: the Result list last written
    histFile,    \* data/deadline_history.json: the ledger last written
    clock,       \* datetime.now(): the number of runs made so far
    confs,       \* the conference list the last run was configured with
    fetched,     \* what fetch_page_lines returned to the last run, per conference
    results,     \* the list `results` of the last run as phase 2 left it (line 332)
    used,        \* per entry of `results`, the indices of the results its prediction sampled
    rerun        \* whether the last run had the configuration and fetch outcomes of the one before

coreVars == <<stage, lines, radius, target_year, observed, cands, picked>>
mainVars == <<outFile, histFile, clock, confs, fetched, results, used, rerun>>
vars == <<stage, lines, radius, target_year, observed, cands, picked,
          outFile, histFile, clock, confs, fetched, results, used, rerun>>

(***************************************************************************)
(* Bounds of the model.                                                    *)
(***************************************************************************)
MaxLines == 2
NumDates == 2
MaxRuns == 2
MaxLedgerRuns == 3

(***************************************************************************)
(* Optional values and small helpers.                                      *)
(***************************************************************************)
None == <<>>
Some(v) == <<v>>

\* an empty dict
EmptyDict == [x \in {} |-> x]

Min2(a, b) == IF a <= b THEN a ELSE b
Max2(a, b) == IF a >= b THEN a ELSE b

Range(s) == {s[k] : k \in 1..Len(s)}

RECURSIVE Concat(_)
Concat(ss) == IF ss = <<>> THEN <<>> ELSE Head(ss) \o Concat(Tail(ss))

(***************************************************************************)
(* The calendar: datetime.date.                                            *)
(***************************************************************************)
IsLeap(y) == (y % 4 = 0 /\ y % 100 # 0) \/ y % 400 = 0

DaysInMonth(y, m) ==
    IF m = 2 THEN (IF IsLeap(y) THEN 29 ELSE 28)
    ELSE IF m \in {4, 6, 9, 11} THEN 30 ELSE 31

ValidDate(dt) ==
    /\ dt[2] \in 1..12
    /\ dt[3] >= 1
    /\ dt[3] <= DaysInMonth(dt[1], dt[2])

DaysBeforeYear(y) ==
    (y - 1) * 365 + ((y - 1) \div 4) - ((y - 1) \div 100) + ((y - 1) \div 400)

RECURSIVE DaysBeforeMonth(_, _)
DaysBeforeMonth(y, m) ==
    IF m = 1 THEN 0 ELSE DaysBeforeMonth(y, m - 1) + DaysInMonth(y, m - 1)

\* date.toordinal()
ToOrdinal(dt) == DaysBeforeYear(dt[1]) + DaysBeforeMonth(dt[1], dt[2]) + dt[3]

\* date.fromordinal(n)
FromOrdinal(n) ==
    LET y == CHOOSE yy \in (n \div 366)..((n \div 365) + 1) :
                 DaysBeforeYear(yy) < n /\ n <= DaysBeforeYear(yy + 1)
        r == n - DaysBeforeYear(y)
        m == CHOOSE mm \in 1..12 :
                 DaysBeforeMonth(y, mm) < r
                 /\ r <= DaysBeforeMonth(y, mm) + DaysInMonth(y, mm)
    IN <<y, m, r - DaysBeforeMonth(y, m)>>

\* (a - b).days for two dates
DaysBetween(a, b) == ToOrdinal(a) - ToOrdinal(b)

\* date <= date
DateLE(a, b) == ToOrdinal(a) <= ToOrdinal(b)

\* the order of ISO strings "YYYY-MM-DD"
IsoLT(a, b) ==
    \/ a[1] < b[1]
    \/ a[1] = b[1] /\ a[2] < b[2]
    \/ a[1] = b[1] /\ a[2] = b[2] /\ a[3] < b[3]

IsoLE(a, b) == a = b \/ IsoLT(a, b)

\* max() of a non-empty collection of ISO strings
IsoMax(S) == CHOOSE x \in S : \A z \in S : IsoLE(z, x)
IsoMin(S) == CHOOSE x \in S : \A z \in S : IsoLE(x, z)

\* sorted(set(...)) of ISO strings
RECURSIVE SortedIso(_)
SortedIso(S) ==
    IF S = {} THEN <<>> ELSE <<IsoMin(S)>> \o SortedIso(S \ {IsoMin(S)})

(***************************************************************************)
(* Inputs of the pure pipeline.  A line is what the keyword checks and the *)
(* date patterns see of it: whether it contains an include, exclude, firm  *)
(* or extension keyword (contains_any), and the matches re.findall returns *)
(* on it, in pattern order.  A match is a full date token ("full": year,   *)
(* month and day as written) or a month+day token ("bare").                *)
(***************************************************************************)
DatePool == << <<2025, 1, 25>>, <<2026, 3, 3>>, <<2025, 2, 1>>, <<2024, 11, 1>>,
               <<2025, 1, 5>>, <<2024, 9, 1>> >>

DateSet == {DatePool[k] : k \in 1..Min2(NumDates, Len(DatePool))}

Full(dt) == [k |-> "full", y |-> dt[1], m |-> dt[2], d |-> dt[3]]
Bare(mo, dy) == [k |-> "bare", y |-> 0, m |-> mo, d |-> dy]

Tokens == {Full(dt) : dt \in DateSet} \cup {Bare(2, 1), Bare(2, 29)}

TokSeqs ==
    {<<>>} \cup {<<t>> : t \in Tokens}
    \cup {<<Full(DatePool[3]), Bare(2, 1)>>, <<Full(DatePool[1]), Full(DatePool[1])>>,
          <<Full(DatePool[2]), Full(DatePool[1])>>}

Line(i, f, e, ts) == [incl |-> i, excl |-> FALSE, firm |-> f, ext |-> e, toks |-> ts]
ExcludedLine == [incl |-> TRUE, excl |-> TRUE, firm |-> TRUE, ext |-> FALSE,
                 toks |-> <<Full(DatePool[2])>>]

LineSet ==
    {Line(i, f, e, ts) : i \in BOOLEAN, f \in BOOLEAN, e \in BOOLEAN, ts \in TokSeqs}
    \cup {ExcludedLine}

LineSeqs == UNION {[1..n -> LineSet] : n \in 0..MaxLines}

Radii == {0, 1}
Years == {None, Some(2025)}
FallbackIso == <<2025, 6, 30>>

(***************************************************************************)
(* extract_dates_from_line                                                 *)
(***************************************************************************)
RECURSIVE DedupTokens(_, _, _)
DedupTokens(items, ty, dedup) ==
    IF items = <<>> THEN dedup
    ELSE LET item == Head(items)
             isBare == item.k = "bare"
             truthy == ty # None /\ ty[1] # 0
             token == IF isBare /\ truthy
                      THEN [k |-> "bare+year", y |-> ty[1], m |-> item.m, d |-> item.d]
                      ELSE item
         IN IF isBare /\ ~truthy THEN DedupTokens(Tail(items), ty, dedup)
            ELSE IF token \in Range(dedup) THEN DedupTokens(Tail(items), ty, dedup)
            ELSE DedupTokens(Tail(items), ty, Append(dedup, token))

ExtractDatesFromLine(line, ty) == DedupTokens(line.toks, ty, <<>>)

\* parser.parse(raw, fuzzy=True, dayfirst=False).date(): None when it raises
ParseDate(raw) ==
    IF ValidDate(<<raw.y, raw.m, raw.d>>) THEN Some(<<raw.y, raw.m, raw.d>>) ELSE None

(***************************************************************************)
(* extract_candidates                                                      *)
(***************************************************************************)
\* the set `matched` of line indices (1-based here)
Matched(ls, rad) ==
    LET n == Len(ls)
        hits == {idx \in 1..n : ~ls[idx].excl /\ ls[idx].incl}
        m == {j \in 1..n : /\ ~ls[j].excl
                           /\ \E idx \in hits :
                                 /\ j >= Max2(1, idx - rad)
                                 /\ j <= Min2(n, idx + rad)}
    IN IF m = {} THEN 1..n ELSE m

RECURSIVE LineCandidates(_, _)
LineCandidates(line, raws) ==
    IF raws = <<>> THEN <<>>
    ELSE LET iso == ParseDate(Head(raws))
             rest == LineCandidates(line, Tail(raws))
         IN IF iso = None THEN rest
            ELSE <<[iso |-> iso[1], raw |-> Head(raws), has_keyword |-> line.incl,
                    is_firm |-> line.firm, is_extension |-> line.ext]>> \o rest

\* the list `candidates` built by the loop of lines 137-161
RECURSIVE ScanLines(_, _, _, _)
ScanLines(ls, idx, m, ty) ==
    IF idx > Len(ls) THEN <<>>
    ELSE IF idx \notin m \/ ls[idx].excl THEN ScanLines(ls, idx + 1, m, ty)
    ELSE LineCandidates(ls[idx], ExtractDatesFromLine(ls[idx], ty))
         \o ScanLines(ls, idx + 1, m, ty)

LineLevelCandidates(ls, rad, ty) == ScanLines(ls, 1, Matched(ls, rad), ty)

MergeCandidateKeepFirst(dedup, c) ==
    IF \E k \in 1..Len(dedup) : dedup[k].iso = c.iso THEN dedup ELSE Append(dedup, c)

\* one step of the loop of lines 164-171 on the dict `dedup` (kept in insertion order)
MergeCandidate(dedup, c) ==
    IF \E k \in 1..Len(dedup) : dedup[k].iso = c.iso
    THEN [k \in 1..Len(dedup) |->
             IF dedup[k].iso = c.iso
             THEN [dedup[k] EXCEPT !.has_keyword = @ \/ c.has_keyword,
                                   !.is_firm = @ \/ c.is_firm,
                                   !.is_extension = @ \/ c.is_extension]
             ELSE dedup[k]]
    ELSE Append(dedup, c)

RECURSIVE DedupCandidates(_, _)
DedupCandidates(cs, dedup) ==
    IF cs = <<>> THEN dedup
    ELSE DedupCandidates(Tail(cs), MergeCandidate(dedup, Head(cs)))

\* sorted(dedup.values(), key=lambda x: x["iso"]) (stable)
RECURSIVE InsertByIso(_, _)
InsertByIso(sorted, c) ==
    IF sorted = <<>> THEN <<c>>
    ELSE IF IsoLT(c.iso, Head(sorted).iso) THEN <<c>> \o sorted
    ELSE <<Head(sorted)>> \o InsertByIso(Tail(sorted), c)

RECURSIVE SortByIso(_)
SortByIso(cs) ==
    IF cs = <<>> THEN <<>>
    ELSE InsertByIso(SortByIso(SubSeq(cs, 1, Len(cs) - 1)), cs[Len(cs)])

extract_candidates(ls, rad, ty) ==
    SortByIso(DedupCandidates(LineLevelCandidates(ls, rad, ty), <<>>))

(***************************************************************************)
(* pick_deadline                                                           *)
(***************************************************************************)
HasKeyword(c) == c.has_keyword
IsFirm(c) == c.is_firm

\* max(pool, key=lambda x: x["iso"]): the first of the maximal elements
RECURSIVE MaxByIso(_)
MaxByIso(pool) ==
    IF Len(pool) = 1 THEN pool[1]
    ELSE LET best == MaxByIso(SubSeq(pool, 1, Len(pool) - 1))
         IN IF IsoLT(best.iso, pool[Len(pool)].iso) THEN pool[Len(pool)] ELSE best

KeywordStep(candidates) ==
    LET keyword_pool == SelectSeq(candidates, HasKeyword)
    IN IF keyword_pool # <<>> THEN keyword_pool ELSE candidates

YearStep(pool0, ty) ==
    IF ty # None
    THEN LET InYear(c) == c.iso[1] \in {ty[1], ty[1] - 1}
             year_pool == SelectSeq(pool0, InYear)
         IN IF year_pool # <<>> THEN year_pool ELSE pool0
    ELSE pool0

FirmStepSkipped(pool0) == pool0

FirmStep(pool0) ==
    LET firm == SelectSeq(pool0, IsFirm)
    IN IF firm # <<>> THEN firm ELSE pool0

Confidence(candidates, chosen) ==
    LET keyword_hits == Len(SelectSeq(candidates, HasKeyword))
        c0 == 45
        c1 == IF keyword_hits # 0 THEN c0 + 25 ELSE c0
        c2 == IF Len(candidates) > 1 THEN c1 + 10 ELSE c1
        c3 == IF chosen.is_firm THEN c2 + 15 ELSE c2
    IN Min2(c3, 95)

pick_deadline(candidates, fallback_iso, ty) ==
    IF candidates = <<>>
    THEN [iso |-> fallback_iso, firm |-> FALSE, confidence |-> 0]
    ELSE LET pool == FirmStep(YearStep(KeywordStep(candidates), ty))
             chosen == MaxByIso(pool)
         IN [iso |-> chosen.iso, firm |-> chosen.is_firm,
             confidence |-> Confidence(candidates, chosen)]

(***************************************************************************)
(* extension_days_from_dates                                               *)
(***************************************************************************)
LookbackDays == 120

extension_days_without_lookback(dates_iso, final_iso) ==
    IF dates_iso = <<>> THEN 0
    ELSE LET relevant == {iso \in Range(dates_iso) : DaysBetween(final_iso, iso) >= 0}
         IN IF Cardinality(relevant) < 2 THEN 0
            ELSE LET hi == CHOOSE x \in relevant : \A z \in relevant : DateLE(z, x)
                     lo == CHOOSE x \in relevant : \A z \in relevant : DateLE(x, z)
                 IN Max2(0, DaysBetween(hi, lo))

extension_days_from_dates(dates_iso, final_iso) ==
    IF dates_iso = <<>> THEN 0
    ELSE LET relevant == {iso \in Range(dates_iso) :
                             /\ DaysBetween(final_iso, iso) >= 0
                             /\ DaysBetween(final_iso, iso) <= LookbackDays}
         IN IF Cardinality(relevant) < 2 THEN 0
            ELSE LET hi == CHOOSE x \in relevant : \A z \in relevant : DateLE(z, x)
                     lo == CHOOSE x \in relevant : \A z \in relevant : DateLE(x, z)
                 IN Max2(0, DaysBetween(hi, lo))

(***************************************************************************)
(* infer_extension_by_family                                               *)
(***************************************************************************)
IsSampleSameYearToo(r, family, year, max_training_days) ==
    /\ r.family = family
    /\ ~(r.observed_extension_days <= 0)
    /\ ~(r.observed_extension_days > max_training_days)
    /\ ~(year # None /\ r.year # None /\ r.year[1] > year[1])

\* whether the loop of lines 226-235 appends r to `samples`
IsSample(r, family, year, max_training_days) ==
    /\ r.family = family
    /\ ~(r.observed_extension_days <= 0)
    /\ ~(r.observed_extension_days > max_training_days)
    /\ ~(year # None /\ r.year # None /\ r.year[1] >= year[1])

\* the indices of the results whose observed extension becomes a sample, in order
RECURSIVE SampleSources(_, _, _, _, _)
SampleSources(rs, k, family, year, max_training_days) ==
    IF k > Len(rs) THEN <<>>
    ELSE (IF IsSample(rs[k], family, year, max_training_days) THEN <<k>> ELSE <<>>)
         \o SampleSources(rs, k + 1, family, year, max_training_days)

RECURSIVE SortInts(_)
SortInts(xs) ==
    IF xs = <<>> THEN <<>>
    ELSE LET k == CHOOSE j \in 1..Len(xs) : \A l \in 1..Len(xs) : xs[j] <= xs[l]
         IN <<xs[k]>> \o SortInts(SubSeq(xs, 1, k - 1) \o SubSeq(xs, k + 1, Len(xs)))

\* int(round(statistics.median(samples))): round() rounds a half to the even integer
RoundedMedian(samples) ==
    LET s == SortInts(samples)
        n == Len(s)
    IN IF n % 2 = 1 THEN s[(n + 1) \div 2]
       ELSE LET sum == s[n \div 2] + s[(n \div 2) + 1]
                half == sum \div 2
            IN IF sum % 2 = 0 THEN half
               ELSE IF half % 2 = 0 THEN half ELSE half + 1

infer_extension_by_family(rs, family, year, default_days, max_training_days) ==
    LET src == SampleSources(rs, 1, family, year, max_training_days)
        samples == [k \in 1..Len(src) |-> rs[src[k]].observed_extension_days]
    IN IF samples = <<>> THEN default_days ELSE RoundedMedian(samples)

(***************************************************************************)
(* Configuration: conferences.yaml and crawler_rules.yaml.                 *)
(***************************************************************************)
ConfA == [id |-> "a", family |-> Some("ml"), year |-> Some(2025), url |-> "ua",
          crawl_urls |-> None, fallback_deadline |-> <<2025, 6, 30>>,
          seed_submission_dates |-> <<>>]
ConfB == [id |-> "b", family |-> Some("ml"), year |-> Some(2024), url |-> "ub",
          crawl_urls |-> Some(<<"ub1">>), fallback_deadline |-> <<2024, 6, 30>>,
          seed_submission_dates |-> <<>>]
ConfC == [id |-> "c", family |-> Some("ml"), year |-> None, url |-> "uc",
          crawl_urls |-> None, fallback_deadline |-> <<2025, 6, 30>>,
          seed_submission_dates |-> <<>>]
ConfD == [id |-> "d", family |-> Some("sec"), year |-> Some(2025), url |-> "ud",
          crawl_urls |-> Some(<<"ud1", "ud2">>), fallback_deadline |-> <<2025, 6, 30>>,
          seed_submission_dates |-> << <<2025, 1, 25>>, <<2025, 1, 5>> >>]

ConfPool == <<ConfA, ConfB, ConfC, ConfD>>

\* the sub-lists of `pool`: the conference lists a run may be configured with
SubLists(pool) ==
    LET Pick(S) == [k \in 1..Cardinality(S) |->
                       pool[CHOOSE j \in S : Cardinality({l \in S : l < j}) = k - 1]]
    IN {Pick(S) : S \in SUBSET (1..Len(pool))}

\* crawler_rules.yaml: three layers of partial rules
RulesDoc ==
    [default |-> [context_radius |-> 1, default_extension_days |-> 14,
                  max_training_extension_days |-> 90],
     families |-> [ml |-> [context_radius |-> 0]],
     conferences |-> [a |-> [context_radius |-> 1]]]

\* dict.update: the keys of `over` replace those of `base`
Update(base, over) ==
    [key \in DOMAIN base \cup DOMAIN over |->
        IF key \in DOMAIN over THEN over[key] ELSE base[key]]

Lookup(layer, key) ==
    IF key # None /\ key[1] \in DOMAIN layer THEN layer[key[1]] ELSE EmptyDict

merge_rule_for_conference(conf, rules) ==
    Update(Update(rules.default, Lookup(rules.families, conf.family)),
           Lookup(rules.conferences, Some(conf.id)))

\* normalize_iso_date of a date value of the configuration
normalize_iso_date(value) == <<value[1], value[2], value[3]>>

(***************************************************************************)
(* fetch_page_lines: what a fetch of one URL may return, a pair            *)
(* (lines, error).                                                         *)
(***************************************************************************)
PageEmpty == <<>>
\* three announcements of one deadline that moved: 5 Jan, 25 Jan, 1 Feb 2025
PageDrift == <<Line(TRUE, FALSE, FALSE, <<Full(DatePool[5])>>),
               Line(TRUE, FALSE, TRUE, <<Full(DatePool[1])>>),
               Line(TRUE, FALSE, TRUE, <<Full(DatePool[3])>>)>>
\* a firm 25 Jan 2025, a later 1 Feb 2025 that is not firm, and a date of 2026
PageFirm == <<Line(TRUE, TRUE, FALSE, <<Full(DatePool[1])>>),
              Line(TRUE, FALSE, FALSE, <<Full(DatePool[3])>>),
              Line(FALSE, FALSE, FALSE, <<Full(DatePool[2])>>)>>
\* 1 Nov 2024 and 1 Feb 2025 (92 days apart) and 1 Sep 2024 (153 days before)
PageLong == <<Line(TRUE, FALSE, FALSE, <<Full(DatePool[4])>>),
              Line(TRUE, FALSE, TRUE, <<Full(DatePool[3])>>),
              Line(TRUE, FALSE, FALSE, <<Full(DatePool[6])>>)>>
\* lines without any date
PageNoDates == <<Line(FALSE, FALSE, FALSE, <<>>)>>
\* a single date, on a line without keyword
PageSingle == <<Line(FALSE, FALSE, FALSE, <<Full(DatePool[5])>>)>>
\* a month+day token next to a keyword line, and an excluded line
PageBare == <<Line(TRUE, FALSE, FALSE, <<>>),
              Line(FALSE, TRUE, FALSE, <<Bare(2, 1), Full(DatePool[4])>>),
              ExcludedLine>>

Unreachable == [lines |-> None, error |-> Some("connection failed")]
Fetched(page) == [lines |-> Some(page), error |-> None]
FetchedWithoutTls(page) ==
    [lines |-> Some(page),
     error |-> Some("ssl-verify-failed; fetched without TLS verification")]

Pages == {PageEmpty, PageDrift, PageFirm, PageLong, PageNoDates, PageSingle, PageBare}

FetchOutcomes ==
    {Unreachable} \cup {Fetched(pg) : pg \in Pages} \cup {FetchedWithoutTls(pg) : pg \in Pages}

(***************************************************************************)
(* main(), phase 1: the body of the loop over the conferences.             *)
(***************************************************************************)
CrawlUrls(conf) ==
    IF conf.crawl_urls # None /\ conf.crawl_urls[1] # <<>>
    THEN conf.crawl_urls[1] ELSE <<conf.url>>

\* `if lines:` (line 262)
LinesTruthy(out) == out.lines # None /\ out.lines[1] # <<>>

\* `if error:` (line 265)
ErrorTruthy(out) == out.error # None /\ out.error[1] # ""

AllLines(outs) ==
    Concat([k \in 1..Len(outs) |-> IF LinesTruthy(outs[k]) THEN outs[k].lines[1] ELSE <<>>])

SuccessCount(outs) == Cardinality({k \in 1..Len(outs) : LinesTruthy(outs[k])})

Errors(urls, outs) ==
    Concat([k \in 1..Len(outs) |->
               IF ErrorTruthy(outs[k]) THEN <<<<urls[k], outs[k].error[1]>>>> ELSE <<>>])

\* lines 275-278: seed submission dates override what pick_deadline returned
ResolveKeepsFirmness(p, seed_dates) ==
    IF seed_dates # <<>>
    THEN [iso |-> IsoMax(Range(seed_dates)), firm |-> p.firm,
          confidence |-> Max2(p.confidence, 95)]
    ELSE p

Resolve(p, seed_dates) ==
    IF seed_dates # <<>>
    THEN [iso |-> IsoMax(Range(seed_dates)), firm |-> TRUE,
          confidence |-> Max2(p.confidence, 95)]
    ELSE p

\* line 280: the dates found that are not after the deadline, and the deadline
DatesFoundUnfiltered(all_dates, deadline_iso) ==
    SortedIso(all_dates \cup {deadline_iso})

DatesFound(all_dates, deadline_iso) ==
    SortedIso({d \in all_dates : DateLE(d, deadline_iso)} \cup {deadline_iso})

\* the candidates main() extracts from what the fetches of one conference returned
CandidatesOf(conf, outs) ==
    LET rule == merge_rule_for_conference(conf, RulesDoc)
        all_lines == AllLines(outs)
    IN IF all_lines # <<>>
       THEN extract_candidates(all_lines, rule.context_radius, conf.year)
       ELSE <<>>

\* the dict `result` of lines 284-300, for one conference and what its fetches returned
BuildResult(conf, outs, now) ==
    LET urls == CrawlUrls(conf)
        errors == Errors(urls, outs)
        success_count == SuccessCount(outs)
        fallback_iso == normalize_iso_date(conf.fallback_deadline)
        seed_dates == [k \in 1..Len(conf.seed_submission_dates) |->
                          normalize_iso_date(conf.seed_submission_dates[k])]
        candidates == CandidatesOf(conf, outs)
        extracted_dates == {candidates[k].iso : k \in 1..Len(candidates)}
        resolved == Resolve(pick_deadline(candidates, fallback_iso, conf.year), seed_dates)
        deadline_iso == resolved.iso
        all_dates == DatesFound(Range(seed_dates) \cup extracted_dates, deadline_iso)
    IN [id |-> conf.id,
        family |-> conf.family,
        year |-> conf.year,
        url |-> conf.url,
        deadline_iso |-> deadline_iso,
        deadline_dates_found |-> all_dates,
        is_firm_deadline |-> resolved.firm,
        observed_extension_days |-> extension_days_from_dates(all_dates, deadline_iso),
        confidence |-> resolved.confidence,
        last_checked_utc |-> now,
        status |-> IF success_count > 0 THEN "ok" ELSE "fallback",
        error |-> IF errors # <<>> THEN Some(errors) ELSE None,
        fallback_deadline |-> fallback_iso]

\* BuildResult of every conference of ConfPool on every outcome of its fetches,
\* computed once
ResultTable ==
    {<<c.id, {<<outs, BuildResult(c, outs, 0)>> :
                 outs \in [1..Len(CrawlUrls(c)) -> FetchOutcomes]}>> : c \in Range(ConfPool)}

\* lines 255-300 for one conference, read off the table
ResultOf(conf, outs, now) ==
    LET row == (CHOOSE t \in ResultTable : t[1] = conf.id)[2]
    IN [(CHOOSE e \in row : e[1] = outs)[2] EXCEPT !.last_checked_utc = now]

LoadPreviousNothing(file) == EmptyDict

\* previous = {item["id"]: item for item in load_json(OUT_PATH, default=[])}
LoadPrevious(file) ==
    [id \in {file[k].id : k \in 1..Len(file)} |->
        file[CHOOSE k \in 1..Len(file) :
                 /\ file[k].id = id
                 /\ \A l \in (k + 1)..Len(file) : file[l].id # id]]

\* previous.get(conf["id"])
PrevOf(prev, id) == IF id \in DOMAIN prev THEN Some(prev[id]) ELSE None

ShouldAppendAlways(prev, result) == TRUE

\* the condition of line 304
ShouldAppend(prev, result) ==
    prev = None \/ prev[1].deadline_iso # result.deadline_iso

HistoryEntry(result, now) ==
    [conference_id |-> result.id,
     seen_at_utc |-> now,
     deadline_iso |-> result.deadline_iso,
     source |-> "crawler",
     is_firm_deadline |-> result.is_firm_deadline]

(***************************************************************************)
(* main(), phase 2 and the two writes.                                     *)
(***************************************************************************)
DefaultExtensionDays(rules) == rules.default.default_extension_days
MaxTrainingExtensionDays(rules) == rules.default.max_training_extension_days

\* the samples the loop of lines 315-331 draws for results[k] (none when firm)
UsedBy(rs, k) ==
    IF rs[k].is_firm_deadline THEN <<>>
    ELSE SampleSources(rs, 1, rs[k].family, rs[k].year, MaxTrainingExtensionDays(RulesDoc))

\* results[k] after the loop body of lines 316-331 has run on it
Predicted(rs, k) ==
    LET predicted_extension_days ==
            IF rs[k].is_firm_deadline THEN 0
            ELSE infer_extension_by_family(rs, rs[k].family, rs[k].year,
                                           DefaultExtensionDays(RulesDoc),
                                           MaxTrainingExtensionDays(RulesDoc))
    IN [key \in DOMAIN rs[k] \cup {"predicted_extension_days", "stretch_until_iso"} |->
           IF key = "predicted_extension_days" THEN predicted_extension_days
           ELSE IF key = "stretch_until_iso"
                THEN FromOrdinal(ToOrdinal(rs[k].deadline_iso) + predicted_extension_days)
                ELSE rs[k][key]]

\* results.sort(key=lambda x: x["deadline_iso"]) (stable)
RECURSIVE SortResults(_)
SortResults(rs) ==
    IF rs = <<>> THEN <<>>
    ELSE LET init == SortResults(SubSeq(rs, 1, Len(rs) - 1))
             r == rs[Len(rs)]
             n == Cardinality({k \in 1..Len(init) : ~IsoLT(r.deadline_iso, init[k].deadline_iso)})
         IN SubSeq(init, 1, n) \o <<r>> \o SubSeq(init, n + 1, Len(init))

\* sorted(history, key=lambda x: x["seen_at_utc"]) (stable)
RECURSIVE SortHistory(_)
SortHistory(h) ==
    IF h = <<>> THEN <<>>
    ELSE LET init == SortHistory(SubSeq(h, 1, Len(h) - 1))
             e == h[Len(h)]
             n == Cardinality({k \in 1..Len(init) : init[k].seen_at_utc <= e.seen_at_utc})
         IN SubSeq(init, 1, n) \o <<e>> \o SubSeq(init, n + 1, Len(init))

(***************************************************************************)
(* main(): one run, from the two files as they stand to the two files as   *)
(* it rewrites them.                                                       *)
(***************************************************************************)
\* the loop of lines 254-313 from conference k on; acc holds `results` and `history`
RECURSIVE Phase1(_, _, _, _, _, _)
Phase1(cs, fs, k, prev, now, acc) ==
    IF k > Len(cs) THEN acc
    ELSE LET result == ResultOf(cs[k], fs[k], now)
         IN Phase1(cs, fs, k + 1, prev, now,
                   [results |-> Append(acc.results, result),
                    history |-> IF ShouldAppend(PrevOf(prev, cs[k].id), result)
                                THEN Append(acc.history, HistoryEntry(result, now))
                                ELSE acc.history])

\* what the fetches of a run may return: per conference, one outcome per crawl URL
RECURSIVE OutcomeSeqs(_, _)
OutcomeSeqs(cs, outcomes) ==
    IF cs = <<>> THEN {<<>>}
    ELSE {<<o>> \o rest : o \in [1..Len(CrawlUrls(Head(cs))) -> outcomes],
                          rest \in OutcomeSeqs(Tail(cs), outcomes)}

\* main() on the conference list cs, with fs what its fetches return; each local is
\* assigned once, as in the code
RunMain(cs, fs) ==
    \E now \in {clock + 1} :
    \E previous \in {LoadPrevious(outFile)} :
    \E p1 \in {Phase1(cs, fs, 1, previous, now, [results |-> <<>>, history |-> histFile])} :
    \E p2 \in {[k \in 1..Len(p1.results) |-> Predicted(p1.results, k)]} :
       /\ clock' = now
       /\ confs' = cs
       /\ fetched' = fs
       /\ rerun' = (clock >= 1 /\ cs = confs /\ fs = fetched)
       /\ results' = p2
       /\ used' = [k \in 1..Len(p1.results) |-> UsedBy(p1.results, k)]
       /\ outFile' = SortResults(p2)
       /\ histFile' = SortHistory(p1.history)

(***************************************************************************)
(* The state before the first run of main(): neither file exists, so       *)
(* load_json returns its default [] for both.                              *)
(***************************************************************************)
MainInit ==
    /\ outFile = <<>>
    /\ histFile = <<>>
    /\ clock = 0
    /\ confs = <<>>
    /\ fetched = <<>>
    /\ results = <<>>
    /\ used = <<>>
    /\ rerun = FALSE

CoreIdle ==
    /\ stage = "input"
    /\ lines = <<>>
    /\ radius = 1
    /\ target_year = None
    /\ observed = <<>>
    /\ cands = <<>>
    /\ picked = None

(***************************************************************************)
(* The pure pipeline: extract_candidates on bounded inputs, then           *)
(* pick_deadline on what it returned.                                      *)
(***************************************************************************)
CoreInit ==
    /\ stage = "input"
    /\ lines \in LineSeqs
    /\ radius \in Radii
    /\ target_year \in Years
    /\ observed = <<>>
    /\ cands = <<>>
    /\ picked = None
    /\ MainInit

\* lines 270-274: the candidates of the lines, and the deadline picked among them
CorePipeline ==
    /\ stage = "input"
    /\ observed' = LineLevelCandidates(lines, radius, target_year)
    /\ \E cs \in {extract_candidates(lines, radius, target_year)} :
          /\ cands' = cs
          /\ picked' = Some(pick_deadline(cs, FallbackIso, target_year))
    /\ stage' = "done"
    /\ UNCHANGED <<lines, radius, target_year>>
    /\ UNCHANGED mainVars

SpecCore == CoreInit /\ [][CorePipeline]_vars

(***************************************************************************)
(* One run of main() on one conference, over every outcome of its fetches. *)
(***************************************************************************)
Init == MainInit /\ CoreIdle

RunConf ==
    /\ clock = 0
    /\ \E c \in Range(ConfPool) :
          \E fs \in OutcomeSeqs(<<c>>, FetchOutcomes) : RunMain(<<c>>, fs)
    /\ UNCHANGED coreVars

SpecConf == Init /\ [][RunConf]_vars

(***************************************************************************)
(* The batch: runs of main(), one after the other, on the two files, each  *)
(* with its own configuration and its own fetch outcomes.                  *)
(***************************************************************************)
BatchPool == <<ConfA, ConfB, ConfC>>
BatchOutcomes == {Fetched(PageDrift), Fetched(PageFirm), FetchedWithoutTls(PageLong)}

Run ==
    /\ clock < MaxRuns
    /\ \E cs \in SubLists(BatchPool) :
          \E fs \in OutcomeSeqs(cs, BatchOutcomes) : RunMain(cs, fs)
    /\ UNCHANGED coreVars

Next == Run

Spec == Init /\ [][Next]_vars

(***************************************************************************)
(* The ledger over a longer sequence of runs, in which conferences leave   *)
(* the configuration and come back.                                        *)
(***************************************************************************)
LedgerPool == <<ConfA, ConfB>>
LedgerOutcomes == {Unreachable, Fetched(PageDrift), Fetched(PageFirm)}

RunLedger ==
    /\ clock < MaxLedgerRuns
    /\ \E cs \in SubLists(LedgerPool) :
          \E fs \in OutcomeSeqs(cs, LedgerOutcomes) : RunMain(cs, fs)
    /\ UNCHANGED coreVars

SpecLedger == Init /\ [][RunLedger]_vars

(***************************************************************************)
(* Properties of the pure pipeline (SpecCore).                             *)
(***************************************************************************)
ObservedOf(iso) == {observed[k] : k \in {j \in 1..Len(observed) : observed[j].iso = iso}}

\* C7: the list extract_candidates returns holds at most one candidate per date, in
\* ascending order of date, and each of the three flags of a candidate is the logical
\* OR of that flag over the line-level observations of its date.
C7_DedupMergesFlags ==
    stage = "done" =>
        /\ \A i, j \in 1..Len(cands) : i < j => IsoLT(cands[i].iso, cands[j].iso)
        /\ \A i \in 1..Len(cands) :
              /\ cands[i].has_keyword = (\E o \in ObservedOf(cands[i].iso) : o.has_keyword)
              /\ cands[i].is_firm = (\E o \in ObservedOf(cands[i].iso) : o.is_firm)
              /\ cands[i].is_extension = (\E o \in ObservedOf(cands[i].iso) : o.is_extension)

\* a date observed on two lines, the second of which alone is firm and has a keyword,
\* next to another date observed later in the document but earlier in the calendar
C7_Witness ==
    /\ stage = "done"
    /\ \E k, l \in 1..Len(observed) :
          /\ k < l
          /\ observed[k].iso = observed[l].iso
          /\ ~observed[k].is_firm /\ observed[l].is_firm
          /\ ~observed[k].has_keyword /\ observed[l].has_keyword
    /\ \E k, l \in 1..Len(observed) : k < l /\ IsoLT(observed[l].iso, observed[k].iso)
    /\ Len(cands) >= 2

\* the pools of the cascade, as sets of candidates
KeywordPool ==
    LET C == Range(cands)
    IN IF \E c \in C : c.has_keyword THEN {c \in C : c.has_keyword} ELSE C

YearPool ==
    LET InTargetYears(c) == c.iso[1] = target_year[1] \/ c.iso[1] = target_year[1] - 1
    IN IF target_year # None /\ (\E c \in KeywordPool : InTargetYears(c))
       THEN {c \in KeywordPool : InTargetYears(c)}
       ELSE KeywordPool

FinalPool ==
    IF \E c \in YearPool : c.is_firm THEN {c \in YearPool : c.is_firm} ELSE YearPool

\* C8: on a non-empty candidate list pick_deadline returns the latest date of the pool
\* the cascade leaves (keyword-adjacent if any; then of the target year or the year
\* before, if a target year is known and any is; then firm-adjacent if any), with the
\* firm flag of that candidate: when a candidate that survives the keyword and year
\* steps is firm, the result is firm, whatever later dates are not.  On an empty list
\* it returns the fallback date, not firm, with confidence 0.
C8_PickLatestOfCascade ==
    stage = "done" =>
        IF cands = <<>>
        THEN picked[1] = [iso |-> FallbackIso, firm |-> FALSE, confidence |-> 0]
        ELSE /\ \E c \in FinalPool : c.iso = picked[1].iso /\ c.is_firm = picked[1].firm
             /\ \A c \in FinalPool : IsoLE(c.iso, picked[1].iso)
             /\ (\E c \in YearPool : c.is_firm) =>
                    /\ picked[1].firm
                    /\ \A c \in YearPool : ~c.is_firm => c.iso # picked[1].iso

\* a firm date is picked although a keyword-adjacent candidate of the target year that
\* is not firm is later, and the keyword step and the year step each dropped a candidate
C8_Witness ==
    /\ stage = "done"
    /\ picked # None
    /\ picked[1].firm
    /\ \E c \in YearPool : ~c.is_firm /\ IsoLT(picked[1].iso, c.iso)
    /\ YearPool # KeywordPool

(***************************************************************************)
(* Properties of the Result of one conference (SpecConf).                  *)
(***************************************************************************)
\* the configuration of the conference a Result is of
ConfOf(r) == CHOOSE c \in Range(confs) : c.id = r.id

\* what was fetched for the conference a Result is of
FetchedOf(r) == fetched[CHOOSE k \in 1..Len(confs) : confs[k].id = r.id]

\* C1: in every Result the resolved deadline is one of deadline_dates_found, and no
\* date of deadline_dates_found is after it.
C1_DeadlineLatestOfDatesFound ==
    \A k \in 1..Len(outFile) :
        LET r == outFile[k]
        IN /\ \E j \in 1..Len(r.deadline_dates_found) :
                 r.deadline_dates_found[j] = r.deadline_iso
           /\ \A j \in 1..Len(r.deadline_dates_found) :
                 IsoLE(r.deadline_dates_found[j], r.deadline_iso)

\* a conference with seed dates whose page also gave a date after the resolved deadline
\* and one before it
C1_Witness ==
    \E k \in 1..Len(outFile) :
        LET r == outFile[k]
            extracted == Range(CandidatesOf(ConfOf(r), FetchedOf(r)))
        IN /\ ConfOf(r).seed_submission_dates # <<>>
           /\ \E c \in extracted : IsoLT(r.deadline_iso, c.iso)
           /\ \E c \in extracted : IsoLT(c.iso, r.deadline_iso)
           /\ Len(r.deadline_dates_found) >= 2

\* C5: the confidence of every Result lies in [0, 0.95]; a conference with seed
\* submission dates has a firm Result of confidence at least 0.95 whose deadline is
\* the latest seed date, whatever was extracted.
C5_ConfidenceAndSeeds ==
    \A k \in 1..Len(outFile) :
        LET r == outFile[k]
            seeds == Range(ConfOf(r).seed_submission_dates)
        IN /\ r.confidence >= 0 /\ r.confidence <= 95
           /\ seeds # {} =>
                 /\ r.is_firm_deadline
                 /\ r.confidence >= 95
                 /\ r.deadline_iso \in seeds
                 /\ \A sd \in seeds : ToOrdinal(sd) <= ToOrdinal(r.deadline_iso)

\* a conference with seed dates whose page gave candidates none of which is firm, so
\* that pick_deadline alone would have returned a later date, not firm, of lower confidence
C5_Witness ==
    \E k \in 1..Len(outFile) :
        LET r == outFile[k]
            p == pick_deadline(CandidatesOf(ConfOf(r), FetchedOf(r)),
                               r.fallback_deadline, r.year)
        IN /\ ConfOf(r).seed_submission_dates # <<>>
           /\ CandidatesOf(ConfOf(r), FetchedOf(r)) # <<>>
           /\ ~p.firm /\ p.confidence < 95 /\ p.iso # r.deadline_iso
           /\ r.is_firm_deadline

\* C6: the status of a Result is "ok" exactly when one of the fetches of its
\* conference returned a line list (not a failure), "fallback" otherwise; and when
\* every fetch failed the Result is there, with status "fallback" and an error string.
C6_StatusOkIffFetchSucceeded ==
    \A c \in 1..Len(confs) :
        \E k \in 1..Len(outFile) :
            LET r == outFile[k]
                succeeded == \E u \in 1..Len(fetched[c]) : fetched[c][u].lines # None
            IN /\ r.id = confs[c].id
               /\ r.status = (IF succeeded THEN "ok" ELSE "fallback")
               /\ ~succeeded => r.error # None

\* C10: observed_extension_days is the number of days between the earliest and the
\* latest of the dates of deadline_dates_found that lie at most 120 days before the
\* deadline (0 when there are fewer than two); the deadline being one of them, it is
\* the number of days from the earliest of them to the deadline, and lies in [0, 120].
C10_ObservedExtensionIsWindowSpan ==
    \A k \in 1..Len(outFile) :
        LET r == outFile[k]
            deadline == ToOrdinal(r.deadline_iso)
            window == {n \in {ToOrdinal(r.deadline_dates_found[j]) :
                                 j \in 1..Len(r.deadline_dates_found)} :
                          n <= deadline /\ deadline - n <= 120}
        IN /\ Cardinality(window) < 2 => r.observed_extension_days = 0
           /\ Cardinality(window) >= 2 =>
                 \E lo, hi \in window :
                     /\ \A n \in window : lo <= n /\ n <= hi
                     /\ r.observed_extension_days = hi - lo
           /\ \E lo \in window :
                 /\ \A n \in window : lo <= n
                 /\ r.observed_extension_days = deadline - lo
           /\ r.observed_extension_days >= 0 /\ r.observed_extension_days <= 120

\* a Result with two dates in the window, more than 90 days apart, and a date before it
C10_Witness ==
    \E k \in 1..Len(outFile) :
        LET r == outFile[k]
        IN /\ r.observed_extension_days > 90
           /\ \E j \in 1..Len(r.deadline_dates_found) :
                 ToOrdinal(r.deadline_iso) - ToOrdinal(r.deadline_dates_found[j]) > 120

(***************************************************************************)
(* Properties of the batch (Spec).                                         *)
(***************************************************************************)
\* a Result list without its timestamps
WithoutLastChecked(rs) == [k \in 1..Len(rs) |-> [rs[k] EXCEPT !.last_checked_utc = 0]]

\* a run with the configuration and the fetch outcomes of the run before it
Replay == clock >= 1 /\ clock' = clock + 1 /\ confs' = confs /\ fetched' = fetched

\* C3, as claimed: a run with the configuration, rules and fetched lines of the run
\* before it, reading the Result list that run wrote, writes the same Result list,
\* field for field, and appends nothing to the ledger.
C3_ReplayWritesSameFiles ==
    [][Replay => (outFile' = outFile /\ histFile' = histFile)]_vars

\* C3, amended: such a run writes a Result list that differs from the one it read in
\* last_checked_utc alone, and appends nothing to the ledger.
C3_ReplaySameButTimestamp ==
    [][Replay => /\ WithoutLastChecked(outFile') = WithoutLastChecked(outFile)
                 /\ histFile' = histFile]_vars

\* the second of two runs with the same three conferences and the same fetch outcomes
C3_Witness ==
    /\ rerun
    /\ clock = 2
    /\ Len(outFile) = Len(BatchPool)
    /\ \E k \in 1..Len(outFile) : outFile[k].predicted_extension_days > 0

\* C4, as claimed: every sample drawn for a conference that is not firm is of a result
\* whose year is earlier than the year of the conference, and is within the training cap.
C4_SamplesOfEarlierYears ==
    \A t \in 1..Len(results) :
        \A j \in Range(used[t]) :
            /\ results[j].observed_extension_days <= MaxTrainingExtensionDays(RulesDoc)
            /\ results[j].year # None
            /\ results[t].year # None
            /\ results[j].year[1] < results[t].year[1]

\* C4, amended: every sample drawn for a conference that is not firm is within the
\* training cap, and is of a result whose year is earlier than the year of the
\* conference whenever both years are known.
C4_SamplesOfEarlierYearsWhenKnown ==
    \A t \in 1..Len(results) :
        \A j \in Range(used[t]) :
            /\ results[j].observed_extension_days <= MaxTrainingExtensionDays(RulesDoc)
            /\ (results[j].year # None /\ results[t].year # None) =>
                   results[j].year[1] < results[t].year[1]

\* a conference of 2025 that is not firm draws a sample from a result of 2024, while
\* its own extension, positive and within the cap, is not drawn
C4_Witness ==
    \E t \in 1..Len(results) :
        /\ ~results[t].is_firm_deadline
        /\ results[t].year = Some(2025)
        /\ results[t].observed_extension_days > 0
        /\ results[t].observed_extension_days <= MaxTrainingExtensionDays(RulesDoc)
        /\ \E j \in Range(used[t]) : results[j].year = Some(2024)
        /\ t \notin Range(used[t])

\* C9: the observed extension of a conference is never a sample of its own prediction.
C9_NoSampleOfItself ==
    \A t \in 1..Len(results) : t \notin Range(used[t])

(***************************************************************************)
(* Properties of the ledger (SpecLedger).                                  *)
(***************************************************************************)
\* the entries a run appended
Appended == {histFile'[k] : k \in (Len(histFile) + 1)..Len(histFile')}

\* the deadline of the latest entry of the ledger for a conference, if there is one
LastRecorded(h, id) ==
    LET of == {k \in 1..Len(h) : h[k].conference_id = id}
    IN IF of = {} THEN None
       ELSE Some(h[CHOOSE k \in of : \A l \in of : l <= k].deadline_iso)

\* the deadline of a conference in a Result list, if it has a Result there
DeadlineIn(rs, id) ==
    LET of == {k \in 1..Len(rs) : rs[k].id = id}
    IN IF of = {} THEN None ELSE Some(rs[CHOOSE k \in of : TRUE].deadline_iso)

\* a run leaves the entries of the ledger as they were, and the ledger in timestamp order
LedgerKept ==
    /\ Len(histFile') >= Len(histFile)
    /\ SubSeq(histFile', 1, Len(histFile)) = histFile
    /\ \A k, l \in 1..Len(histFile') :
          k < l => histFile'[k].seen_at_utc <= histFile'[l].seen_at_utc

\* C2, as claimed: a run appends an entry for a conference only when its resolved
\* deadline differs from the deadline of the latest entry of that conference; it
\* leaves the entries there were as they were, and the ledger in timestamp order.
C2_AppendOnlyOnChangeOfLastEntry ==
    [][/\ LedgerKept
       /\ \A e \in Appended :
             /\ Some(e.deadline_iso) = DeadlineIn(outFile', e.conference_id)
             /\ LastRecorded(histFile, e.conference_id) # Some(e.deadline_iso)]_vars

\* C2, amended: a run appends an entry for a conference only when the conference has
\* no Result in the Result list the run read, or its resolved deadline differs from
\* the deadline of that Result; it leaves the entries there were as they were, and
\* the ledger in timestamp order.
C2_AppendOnlyOnChangeOfPriorResult ==
    [][/\ LedgerKept
       /\ \A e \in Appended :
             /\ Some(e.deadline_iso) = DeadlineIn(outFile', e.conference_id)
             /\ DeadlineIn(outFile, e.conference_id) # Some(e.deadline_iso)]_vars

\* three runs with conference "a": its deadline changed from the first to the second,
\* which appended an entry, and not from the second to the third, which appended none
C2_Witness ==
    /\ clock = 3
    /\ \E k \in 1..Len(outFile) : outFile[k].id = "a"
    /\ \E k, l \in 1..Len(histFile) :
          /\ histFile[k].conference_id = "a" /\ histFile[l].conference_id = "a"
          /\ histFile[k].seen_at_utc = 1 /\ histFile[l].seen_at_utc = 2
          /\ histFile[k].deadline_iso # histFile[l].deadline_iso
    /\ \A k \in 1..Len(histFile) : histFile[k].seen_at_utc < 3

====
